---- MODULE Spec2Model ----
(***************************************************************************)
(* Model of sales_deck_backend.py: the in-memory registry generated_files, *)
(* the deck files under temp_files, the background thread                  *)
(* cleanup_old_files, and the request handlers generate_deck and           *)
(* download_file.  One cleanup thread, one generate-deck worker and one    *)
(* download worker run concurrently; each action is one stretch of a       *)
(* handler between two accesses to shared state (the dict, the disk).      *)
(* Time is counted in hours.                                               *)
(***************************************************************************)
EXTENDS Integers, Sequences, FiniteSets, TLC

VARIABLES
    now,              \* datetime.now(), in hours
    generated_files,  \* the dict: its entry array in insertion order
    files,            \* file_ids whose deck file exists under temp_files
    next_id,          \* number of uuid4 file_ids drawn so far (named 1, 2, ...)
    stray_logo,       \* a logo_*.png left behind by a request that ended 500
    cleanup,          \* locals of the cleanup_old_files thread
    pass_view,        \* what the current cleanup pass started from
    download,         \* locals and response of the download_file worker
    generate          \* locals and response of the generate_deck worker

vars == <<now, generated_files, files, next_id, stray_logo, cleanup,
          pass_view, download, generate>>

---------------------------------------------------------------------------
(* Bounds of the model *)

NumIds == 2
MaxTime == 2
MaxOdd == 2

(* Program constants *)

LIFETIME == 1
MAX_COMPANY_NAME == 100
MAX_INDUSTRY == 100
MAX_BUYER_PERSONA == 200
MAX_MAIN_PAIN_POINT == 500
MAX_USE_CASE == 500
FALLBACK_SLIDES == 8

Ids == 1..NumIds

---------------------------------------------------------------------------
(* The dict generated_files.  CPython keeps the entries in insertion       *)
(* order; del leaves a dead slot behind, a new key is appended.            *)

Entry(id, t) == [id |-> id, created_at |-> t, live |-> TRUE]

LiveAt(gf) == {i \in DOMAIN gf : gf[i].live}

Keys(gf) == {gf[i].id : i \in LiveAt(gf)}

Removed(gf) == {gf[i].id : i \in DOMAIN gf \ LiveAt(gf)}

ma_used(gf) == Cardinality(LiveAt(gf))

GetItem(gf, id) == gf[CHOOSE i \in LiveAt(gf) : gf[i].id = id]

DelItem(gf, id) ==
    [i \in DOMAIN gf |-> IF gf[i].id = id THEN [gf[i] EXCEPT !.live = FALSE]
                         ELSE gf[i]]

SetItem(gf, id, t) == Append(gf, Entry(id, t))

MinOf(S) == CHOOSE x \in S : \A y \in S : x <= y

\* the expiry test with >= in place of >
Expired_AtLifetime(t, created_at) == t - created_at >= LIFETIME

Expired(t, created_at) == t - created_at > LIFETIME

---------------------------------------------------------------------------
(* cleanup_old_files: the background thread *)

\* pass_view is what the pass under way (or just over) started from, for as
\* long as no request and no outside deletion has come in between.
NoView == [store |-> <<>>, files |-> {}, quiet |-> FALSE]

Disturb == NoView

\* the except clause outside the while loop: an error ends the thread
cleanup_except_ends_loop(c, e) ==
    [c EXCEPT !.pc = "dead", !.error = e, !.di_used = 0, !.di_pos = 0,
              !.di_len = 0, !.file_id = 0, !.k = 0]

\* except Exception as e: logger.error(...), then time.sleep(300)
cleanup_except(c, e) ==
    [c EXCEPT !.pc = "sleep", !.error = e, !.di_used = 0, !.di_pos = 0,
              !.di_len = 0, !.file_id = 0, !.k = 0]

\* the for loop ran to its end: go on to the second loop
cleanup_scan_done(c) ==
    [c EXCEPT !.pc = "del", !.k = 1, !.di_used = 0, !.di_pos = 0,
              !.di_len = 0, !.file_id = 0]

\* the second loop ran to its end: time.sleep(300)
cleanup_pass_done(c) == [c EXCEPT !.pc = "sleep", !.k = 0]

\* the os.remove error swallowed per record: the pass goes on to the next one
cleanup_remove_raised_goes_on(c) == [c EXCEPT !.pc = "next"]

\* os.remove(file_info['path']) raised inside the first loop
cleanup_remove_raised(c) == cleanup_except(c, "OSError")

\* the thread starts, or time.sleep(300) returns; then
\* current_time = datetime.now(); files_to_remove = []; iter(generated_files.items())
CleanupStart ==
    /\ cleanup.pc \in {"start", "sleep"}
    /\ cleanup' = [pc |-> "next", current_time |-> now, files_to_remove |-> <<>>,
                   di_used |-> ma_used(generated_files), di_pos |-> 1,
                   di_len |-> ma_used(generated_files), file_id |-> 0, k |-> 0,
                   error |-> "none"]
    /\ pass_view' = [store |-> generated_files, files |-> files, quiet |-> TRUE]
    /\ UNCHANGED <<now, generated_files, files, next_id, stray_logo, download, generate>>

\* one step of the dict iterator, the expiry test and files_to_remove.append
CleanupNext ==
    /\ cleanup.pc = "next"
    /\ LET c == cleanup
           cand == {i \in LiveAt(generated_files) : i >= c.di_pos}
       IN  cleanup' =
             IF c.di_used # ma_used(generated_files)
             THEN cleanup_except(c, "RuntimeError")
             ELSE IF cand = {} THEN cleanup_scan_done(c)
             ELSE IF c.di_len = 0 THEN cleanup_except(c, "RuntimeError")
             ELSE LET i == MinOf(cand)
                      e == generated_files[i]
                  IN  IF Expired(c.current_time, e.created_at)
                      THEN [c EXCEPT !.di_pos = i + 1, !.di_len = c.di_len - 1,
                                     !.files_to_remove = Append(@, e.id),
                                     !.file_id = e.id, !.pc = "exists"]
                      ELSE [c EXCEPT !.di_pos = i + 1, !.di_len = c.di_len - 1]
    /\ UNCHANGED <<now, generated_files, files, next_id, stray_logo, pass_view,
                   download, generate>>

\* if os.path.exists(file_info['path'])
CleanupExists ==
    /\ cleanup.pc = "exists"
    /\ cleanup' = [cleanup EXCEPT !.pc = IF cleanup.file_id \in files
                                         THEN "remove" ELSE "next"]
    /\ UNCHANGED <<now, generated_files, files, next_id, stray_logo, pass_view,
                   download, generate>>

\* os.remove(file_info['path']): deletes the file, or raises OSError
CleanupRemove ==
    /\ cleanup.pc = "remove"
    /\ \/ /\ cleanup.file_id \in files
          /\ files' = files \ {cleanup.file_id}
          /\ cleanup' = [cleanup EXCEPT !.pc = "next"]
       \/ /\ cleanup.file_id \in files
          /\ files' = files
          /\ cleanup' = cleanup_remove_raised(cleanup)
       \/ /\ cleanup.file_id \notin files
          /\ files' = files
          /\ cleanup' = cleanup_remove_raised(cleanup)
    /\ UNCHANGED <<now, generated_files, next_id, stray_logo, pass_view,
                   download, generate>>

\* for file_id in files_to_remove: del generated_files[file_id]
CleanupDel ==
    /\ cleanup.pc = "del"
    /\ IF cleanup.k > Len(cleanup.files_to_remove)
       THEN /\ cleanup' = cleanup_pass_done(cleanup)
            /\ generated_files' = generated_files
       ELSE LET id == cleanup.files_to_remove[cleanup.k]
            IN  IF id \in Keys(generated_files)
                THEN /\ generated_files' = DelItem(generated_files, id)
                     /\ cleanup' = [cleanup EXCEPT !.k = @ + 1]
                ELSE /\ generated_files' = generated_files
                     /\ cleanup' = cleanup_except(cleanup, "KeyError")
    /\ UNCHANGED <<now, files, next_id, stray_logo, pass_view, download, generate>>

Cleanup ==
    \/ CleanupStart
    \/ CleanupNext
    \/ CleanupExists
    \/ CleanupRemove
    \/ CleanupDel

---------------------------------------------------------------------------
(* download_file *)

\* except Exception as e: logger.error(...); abort(500).  abort(404) and
\* abort(410) raise werkzeug HTTPException, a subclass of Exception, inside
\* the try block, so they arrive here like every other exception.
download_except(e) == 500

\* the response leaves the handler; the worker is free again
download_done(d, status) ==
    [d EXCEPT !.pc = "idle", !.status = status, !.created_at = 0]

\* if file_id not in generated_files: abort(404)
DownloadBegin(id) ==
    /\ download.pc = "idle"
    /\ LET d == [pc |-> "lookup", file_id |-> id, created_at |-> 0,
                 status |-> 0]
       IN  download' = IF id \in Keys(generated_files) THEN d
                       ELSE download_done(d, download_except("NotFound"))
    /\ pass_view' = Disturb
    /\ UNCHANGED <<now, generated_files, files, next_id, stray_logo, cleanup, generate>>

\* file_info = generated_files[file_id]
DownloadLookup ==
    /\ download.pc = "lookup"
    /\ download' =
         IF download.file_id \in Keys(generated_files)
         THEN [download EXCEPT !.pc = "exists",
                 !.created_at = GetItem(generated_files, download.file_id).created_at]
         ELSE download_done(download, download_except("KeyError"))
    /\ pass_view' = Disturb
    /\ UNCHANGED <<now, generated_files, files, next_id, stray_logo, cleanup, generate>>

\* if not os.path.exists(file_info['path'])
DownloadExists ==
    /\ download.pc = "exists"
    /\ download' = [download EXCEPT !.pc = IF download.file_id \in files
                                           THEN "expiry" ELSE "del_missing"]
    /\ pass_view' = Disturb
    /\ UNCHANGED <<now, generated_files, files, next_id, stray_logo, cleanup, generate>>

\* del generated_files[file_id]; abort(404)
DownloadDelMissing ==
    /\ download.pc = "del_missing"
    /\ IF download.file_id \in Keys(generated_files)
       THEN /\ generated_files' = DelItem(generated_files, download.file_id)
            /\ download' = download_done(download, download_except("NotFound"))
       ELSE /\ generated_files' = generated_files
            /\ download' = download_done(download, download_except("KeyError"))
    /\ pass_view' = Disturb
    /\ UNCHANGED <<now, files, next_id, stray_logo, cleanup, generate>>

\* if datetime.now() - file_info['created_at'] > timedelta(hours=1)
DownloadExpiry ==
    /\ download.pc = "expiry"
    /\ download' = [download EXCEPT !.pc = IF Expired(now, download.created_at)
                                           THEN "remove" ELSE "send"]
    /\ pass_view' = Disturb
    /\ UNCHANGED <<now, generated_files, files, next_id, stray_logo, cleanup, generate>>

\* os.remove(file_info['path']): deletes the file, or raises OSError
DownloadRemove ==
    /\ download.pc = "remove"
    /\ \/ /\ download.file_id \in files
          /\ files' = files \ {download.file_id}
          /\ download' = [download EXCEPT !.pc = "del_expired"]
       \/ /\ download.file_id \in files
          /\ files' = files
          /\ download' = download_done(download, download_except("OSError"))
       \/ /\ download.file_id \notin files
          /\ files' = files
          /\ download' = download_done(download, download_except("OSError"))
    /\ pass_view' = Disturb
    /\ UNCHANGED <<now, generated_files, next_id, stray_logo, cleanup, generate>>

\* del generated_files[file_id]; abort(410)
DownloadDelExpired ==
    /\ download.pc = "del_expired"
    /\ IF download.file_id \in Keys(generated_files)
       THEN /\ generated_files' = DelItem(generated_files, download.file_id)
            /\ download' = download_done(download, download_except("Gone"))
       ELSE /\ generated_files' = generated_files
            /\ download' = download_done(download, download_except("KeyError"))
    /\ pass_view' = Disturb
    /\ UNCHANGED <<now, files, next_id, stray_logo, cleanup, generate>>

\* return send_file(file_info['path'], ...)
DownloadSend ==
    /\ download.pc = "send"
    /\ download' = IF download.file_id \in files
                   THEN download_done(download, 200)
                   ELSE download_done(download, download_except("OSError"))
    /\ pass_view' = Disturb
    /\ UNCHANGED <<now, generated_files, files, next_id, stray_logo, cleanup, generate>>

Download ==
    \/ \E id \in Ids : DownloadBegin(id)
    \/ DownloadLookup
    \/ DownloadExists
    \/ DownloadDelMissing
    \/ DownloadExpiry
    \/ DownloadRemove
    \/ DownloadDelExpired
    \/ DownloadSend

---------------------------------------------------------------------------
(* generate_deck: the request body and validate_input *)

\* A JSON value of a field, as far as the handler looks at it: absent, not a
\* string, or a string with its length, its length after strip(), and whether
\* it holds a path separator.
Absent == [kind |-> "absent", len |-> 0, strip_len |-> 0, sep |-> FALSE]

NonStr == [kind |-> "nonstr", len |-> 0, strip_len |-> 0, sep |-> FALSE]

Str(n, m, sep) == [kind |-> "str", len |-> n, strip_len |-> m, sep |-> sep]

Plain == Str(1, 1, FALSE)

required_fields ==
    <<"company_name", "industry", "buyer_persona", "main_pain_point", "use_case">>

FieldNames == {required_fields[k] : k \in DOMAIN required_fields}

MaxLenOf(f) ==
    CASE f = "company_name" -> MAX_COMPANY_NAME
      [] f = "industry" -> MAX_INDUSTRY
      [] f = "buyer_persona" -> MAX_BUYER_PERSONA
      [] f = "main_pain_point" -> MAX_MAIN_PAIN_POINT
      [] f = "use_case" -> MAX_USE_CASE

\* the values a field takes in the requests of the model
FieldVals(f) ==
    {Absent, NonStr, Plain,
     Str(0, 0, FALSE),                          \* ""
     Str(1, 0, FALSE),                          \* " "
     Str(MaxLenOf(f), MaxLenOf(f), FALSE),      \* as long as allowed
     Str(MaxLenOf(f) + 1, MaxLenOf(f), FALSE),  \* as long as allowed, and a space
     Str(MaxLenOf(f) + 1, MaxLenOf(f) + 1, FALSE)}
    \cup (IF f = "company_name" THEN {Str(3, 3, TRUE)} ELSE {})   \* "A/B"

\* if field not in data or not data[field].strip(), field by field
RECURSIVE CheckRequired(_, _)
CheckRequired(data, k) ==
    IF k > Len(required_fields) THEN "pass"
    ELSE LET v == data[required_fields[k]]
         IN  IF v.kind = "absent" THEN "invalid"
             ELSE IF v.kind = "nonstr" THEN "raise"      \* no attribute 'strip'
             ELSE IF v.strip_len = 0 THEN "invalid"
             ELSE CheckRequired(data, k + 1)

\* if len(data[...]) > ...: the five length tests
RECURSIVE CheckLengths(_, _)
CheckLengths(data, k) ==
    IF k > Len(required_fields) THEN "valid"
    ELSE IF data[required_fields[k]].len > MaxLenOf(required_fields[k]) THEN "invalid"
    ELSE CheckLengths(data, k + 1)

validate_input(data) ==
    IF CheckRequired(data, 1) = "pass" THEN CheckLengths(data, 1)
    ELSE CheckRequired(data, 1)

\* the requests of the model: at most MaxOdd fields differ from a plain valid string
Bodies ==
    UNION {{[f \in FieldNames |-> IF f \in S THEN g[f] ELSE Plain] :
              g \in {h \in [S -> UNION {FieldVals(f) : f \in S}] :
                        \A f \in S : h[f] \in FieldVals(f)}} :
           S \in {T \in SUBSET FieldNames : Cardinality(T) <= MaxOdd}}

\* what the claims call a field that is missing, empty after trimming or too long
BadField(data) ==
    \E f \in FieldNames :
        \/ data[f].kind = "absent"
        \/ data[f].kind = "str" /\ data[f].strip_len = 0
        \/ data[f].kind = "str" /\ data[f].len > MaxLenOf(f)

---------------------------------------------------------------------------
(* generate_slide_content, create_powerpoint, save_base64_image *)

\* a decoded JSON value: an object with so many entries under "slides", or not
\* an object at all
Obj(n) == [object |-> TRUE, slides |-> n]

NotObj == [object |-> FALSE, slides |-> 0]

SlideCounts == {0, FALLBACK_SLIDES - 1, FALLBACK_SLIDES, FALLBACK_SLIDES + 1}

\* what client.chat.completions.create does, and what the reply text is like:
\* direct: json.loads(content) succeeds; embedded: what re.search(r'\{.*\}')
\* finds ("none"), and whether json.loads of the match succeeds ("ok", "bad")
Replies ==
    {[outcome |-> o, direct |-> FALSE, embedded |-> "none", json |-> NotObj] :
        o \in {"raise", "timeout"}}
    \cup {[outcome |-> "reply", direct |-> TRUE, embedded |-> "none", json |-> j] :
            j \in {NotObj} \cup {Obj(n) : n \in SlideCounts}}
    \cup {[outcome |-> "reply", direct |-> FALSE, embedded |-> e, json |-> NotObj] :
            e \in {"none", "bad"}}
    \cup {[outcome |-> "reply", direct |-> FALSE, embedded |-> "ok", json |-> Obj(n)] :
            n \in SlideCounts}

\* how the response of a request remembers which reply it was served with
ReplyKind(r) ==
    IF r.outcome # "reply" THEN r.outcome
    ELSE IF r.direct THEN "direct"
    ELSE IF r.embedded = "ok" THEN "embedded"
    ELSE "undecodable"

\* the static template of the except branch
Fallback == Obj(FALLBACK_SLIDES)

generate_slide_content(reply) ==
    IF reply.outcome # "reply" THEN Fallback
    ELSE IF reply.direct THEN reply.json
    ELSE IF reply.embedded = "ok" THEN reply.json
    ELSE Fallback

\* slide_data.get('slides', []) raises on a value that is no object
create_powerpoint(slide_data) == IF slide_data.object THEN "prs" ELSE "raise"

\* prs.save(os.path.join(UPLOAD_FOLDER, filename)): a path separator in the
\* company name names a directory that does not exist
prs_save(company_name) == IF company_name.sep THEN "raise" ELSE "saved"

Logos == {"", "image", "malformed"}

\* the logo file is written, or the exception is logged and None returned
save_base64_image(logo) == logo = "image"

---------------------------------------------------------------------------
(* generate_deck *)

GenerateIdle ==
    [pc |-> "idle", file_id |-> 0, slides |-> 0, logo_path |-> FALSE,
     status |-> 0, slides_generated |-> 0, called |-> FALSE, bad_field |-> FALSE,
     reply |-> "none"]

\* except Exception as e: return jsonify({"error": ...}), 500
generate_except(g) == [g EXCEPT !.pc = "idle", !.status = 500, !.slides = 0]

\* from the request to prs.save(filepath)
GenerateDeckBegin(bodies, logos, replies) ==
    /\ generate.pc = "idle"
    /\ pass_view' = Disturb
    /\ \/ \* not request.is_json
          /\ generate' = [GenerateIdle EXCEPT !.status = 400]
          /\ UNCHANGED <<files, next_id, stray_logo>>
       \/ \* validate_input raises, or returns False
          \E data \in bodies :
            /\ validate_input(data) # "valid"
            /\ generate' =
                 IF validate_input(data) = "raise"
                 THEN generate_except([GenerateIdle EXCEPT !.bad_field = BadField(data)])
                 ELSE [GenerateIdle EXCEPT !.status = 400, !.bad_field = BadField(data)]
            /\ UNCHANGED <<files, next_id, stray_logo>>
       \/ \* the logo, the external call, the deck, the file
          \E data \in bodies, logo \in logos, reply \in replies :
            /\ validate_input(data) = "valid"
            /\ next_id < NumIds
            /\ LET g == [GenerateIdle EXCEPT !.logo_path = save_base64_image(logo),
                                            !.called = TRUE,
                                            !.reply = ReplyKind(reply),
                                            !.bad_field = BadField(data)]
                   slide_data == generate_slide_content(reply)
               IN  IF \/ create_powerpoint(slide_data) = "raise"
                      \/ prs_save(data["company_name"]) = "raise"
                   THEN /\ generate' = generate_except(g)
                        /\ stray_logo' = (stray_logo \/ g.logo_path)
                        /\ UNCHANGED <<files, next_id>>
                   ELSE /\ generate' = [g EXCEPT !.pc = "register",
                                                 !.file_id = next_id + 1,
                                                 !.slides = slide_data.slides]
                        /\ next_id' = next_id + 1
                        /\ files' = files \cup {next_id + 1}
                        /\ stray_logo' = stray_logo
    /\ UNCHANGED <<now, generated_files, cleanup, download>>

\* generated_files[file_id] = {...}; os.remove(logo_path); return jsonify(...)
GenerateDeckRegister ==
    /\ generate.pc = "register"
    /\ generated_files' = SetItem(generated_files, generate.file_id, now)
    /\ generate' = [generate EXCEPT !.pc = "idle", !.status = 200,
                                    !.logo_path = FALSE,
                                    !.slides_generated = generate.slides]
    /\ pass_view' = Disturb
    /\ UNCHANGED <<now, files, next_id, stray_logo, cleanup, download>>

\* While the cleanup thread and the downloads run, the requests are plain valid
\* ones whose external call fails: the other requests end 400 or 500 and leave
\* the registry and the disk as they were.
PlainBody == [f \in FieldNames |-> Plain]

Generate ==
    \/ GenerateDeckBegin({PlainBody}, {""}, {r \in Replies : r.outcome = "raise"})
    \/ GenerateDeckRegister

\* Every request of the model, with no other thread at work.
GenerateAlone ==
    \/ GenerateDeckBegin(Bodies, Logos, Replies)
    \/ GenerateDeckRegister

---------------------------------------------------------------------------
(* The clock and the disk *)

Tick ==
    /\ now < MaxTime
    /\ now' = now + 1
    /\ UNCHANGED <<generated_files, files, next_id, stray_logo, cleanup,
                   pass_view, download, generate>>

\* a deck file disappears from temp_files without the program's doing
ExternalDelete ==
    /\ \E id \in files : files' = files \ {id}
    /\ pass_view' = Disturb
    /\ UNCHANGED <<now, generated_files, next_id, stray_logo, cleanup,
                   download, generate>>

---------------------------------------------------------------------------

Init ==
    /\ now = 0
    /\ generated_files = <<>>
    /\ files = {}
    /\ next_id = 0
    /\ stray_logo = FALSE
    /\ cleanup = [pc |-> "start", current_time |-> 0, files_to_remove |-> <<>>,
                  di_used |-> 0, di_pos |-> 0, di_len |-> 0, file_id |-> 0,
                  k |-> 0, error |-> "none"]
    /\ pass_view = [store |-> <<>>, files |-> {}, quiet |-> TRUE]
    /\ download = [pc |-> "idle", file_id |-> 0, created_at |-> 0, status |-> 0]
    /\ generate = GenerateIdle

Next ==
    \/ Cleanup
    \/ Download
    \/ Generate
    \/ Tick
    \/ ExternalDelete

Spec == Init /\ [][Next]_vars

NextRequests ==
    \/ GenerateAlone
    \/ Tick

SpecRequests == Init /\ [][NextRequests]_vars

\* The loop with the requests and the clock around it; the cleanup thread gets
\* to run, and time.sleep(300) returns.
NextLoop ==
    \/ Cleanup
    \/ Download
    \/ Generate
    \/ Tick

FairSpec == Init /\ [][NextLoop]_vars /\ WF_vars(Cleanup)

---------------------------------------------------------------------------
(* Claims *)

Range(q) == {q[i] : i \in DOMAIN q}

\* the records a pass finds expired in the registry it started from
ExpiredIn(store, t) ==
    {store[i].id : i \in {j \in LiveAt(store) : t - store[j].created_at > LIFETIME}}

\* C1: a download made while the record is within its lifetime and the file is
\* on disk returns 200 and leaves the record in the store; the download that
\* finds the record expired returns 410 and removes the record and the file.
C1_DownloadWithinWindowThenGone ==
    [][/\ (/\ download.pc = "send"
           /\ download.file_id \in files
           /\ download.file_id \in Keys(generated_files)
           /\ download'.pc = "idle")
          => (/\ download'.status = 200
              /\ download.file_id \in Keys(generated_files'))
       /\ (/\ download.pc = "del_expired"
           /\ download.file_id \in Keys(generated_files)
           /\ download'.pc = "idle")
          => (/\ download'.status = 410
              /\ download.file_id \notin Keys(generated_files')
              /\ download.file_id \notin files')]_vars

\* C2: a download of an identifier that is not in the store returns 404 and
\* leaves the store and the files as they were.
C2_AbsentIdIs404 ==
    [][(/\ download.pc = "idle"
        /\ download' # download
        /\ download'.file_id \notin Keys(generated_files))
       => (/\ download'.pc = "idle"
           /\ download'.status = 404
           /\ UNCHANGED <<generated_files, files>>)]_vars

\* C3: every request that passes validation is answered with success and
\* slides_generated = 8, whatever the external call did.
C3_AlwaysEightSlides ==
    (generate.pc = "idle" /\ generate.called)
        => (generate.status = 200 /\ generate.slides_generated = FALLBACK_SLIDES)

\* C4: a request with a required field missing, empty after trimming or too
\* long is answered 400, with no external call, no logo or deck file written
\* and no record added.
C4_BadFieldIs400 ==
    [][(/\ generate.pc = "idle"
        /\ generate' # generate
        /\ generate'.bad_field)
       => (/\ generate'.pc = "idle"
           /\ generate'.status = 400
           /\ ~generate'.called
           /\ ~generate'.logo_path
           /\ UNCHANGED <<generated_files, files, stray_logo, next_id>>)]_vars

\* C5: whatever the requests do meanwhile, a pass in which no file deletion
\* fails ends without an error and with every record it found expired removed
\* from the store, its file too.
C5_PassSafeUnderConcurrency ==
    (cleanup.pc = "sleep" /\ cleanup.error # "OSError")
        => (/\ cleanup.error = "none"
            /\ \A id \in Range(cleanup.files_to_remove) :
                  id \notin Keys(generated_files) /\ id \notin files)

C7_LoopSurvivesErrors ==
    (cleanup.error # "none") ~> (cleanup.pc = "next" /\ cleanup.error = "none")

\* C7, its case: a pass has raised, the error is caught and the loop sleeps
C7_ErrorCaught ==
    cleanup.pc = "sleep" /\ cleanup.error # "none"

\* C8: a download of a record whose file is missing removes the record and
\* returns 404 whatever the record's age; 410 is returned only for a record
\* past its lifetime whose file was present.
C8_MissingFileIs404 ==
    [][/\ (/\ download.pc = "del_missing"
           /\ download.file_id \in Keys(generated_files)
           /\ download'.pc = "idle")
          => (/\ download'.status = 404
              /\ download.file_id \notin Keys(generated_files'))
       /\ (download'.status = 410 /\ download.status # 410)
          => download.pc = "del_expired"]_vars

\* C9: when the deletion of one expired record's file fails, the same pass
\* still removes every other expired record together with its file.
C9_DeletionFailureIsSkipped ==
    (/\ cleanup.pc = "sleep"
     /\ cleanup.error = "OSError"
     /\ pass_view.quiet)
        => \A id \in ExpiredIn(pass_view.store, cleanup.current_time) :
              id # cleanup.files_to_remove[Len(cleanup.files_to_remove)]
                 => (id \notin Keys(generated_files) /\ id \notin files)

\* C10: no deck file is left on disk whose record has been removed from the
\* store.
C10_NoOrphanedDeckFile ==
    \A id \in Removed(generated_files) : id \notin files

\* C10, its case: a record has been removed, a pass has been abandoned on an
\* error, and deck files are on disk
C10_RecordRemovedAndPassAborted ==
    /\ Removed(generated_files) # {}
    /\ cleanup.error # "none"
    /\ files # {}

====
